---- MODULE Spec2Model ----
(***************************************************************************)
(* State-machine model of DateRangeInput                                   *)
(* (packages/datetime/src/dateRangeInput.tsx).                             *)
(*                                                                         *)
(* The component's state record (IDateRangeInputState) is the variable     *)
(* `state`, its props are the variable `props`.  One action per event      *)
(* handler of the component: focus, change and blur of each of the two     *)
(* inputs, a range change coming from the DateRangePicker, the icon click  *)
(* and the popover's close.  An action is one event with everything the    *)
(* component does before it is idle again: the handler, the blur() and     *)
(* focus() calls the component makes on its inputs together with the blur  *)
(* and focus events these calls raise, and componentDidUpdate.             *)
(*                                                                         *)
(* The component is mounted either in the document (`attached`), where the *)
(* browser keeps document.activeElement and an input takes events only the *)
(* way a user can cause them, or out of the document, the way the          *)
(* component's tests mount it (mount(...) without attachTo), where events  *)
(* are simulated on any input in any order (simulate("focus"),             *)
(* simulate("change", ...), simulate("blur")) and focus()/blur() on a      *)
(* detached element do nothing.  What is on screen is the output of the    *)
(* last render() that returned: a render() that throws leaves it there.    *)
(*                                                                         *)
(* Calendar days are the integers 1..NumDays of one month; the text a user *)
(* can type is a finite set of strings over these days.  moment's parse    *)
(* and format under the pattern "YYYY-MM-DD" are the operators Parse and   *)
(* Format.                                                                 *)
(***************************************************************************)
EXTENDS Integers, Sequences, FiniteSets, TLC

VARIABLES
    props,          \* this.props (never reassigned by the component)
    state,          \* this.state
    onChangeCalls,  \* arguments of the props.onChange calls made by the last event
    onErrorCalls,   \* arguments of the props.onError calls made by the last event
    lastEvent,      \* the last event delivered to the component (history)
    attached,       \* the component's elements are in the document
    activeElement,  \* document.activeElement: "start", "end" (the two inputs)
                    \* or "body" (any other element)
    renderedIsOpen  \* the isOpen the Popover was given by the last render()
                    \* that did not throw: what is on screen

vars == <<props, state, onChangeCalls, onErrorCalls, lastEvent, attached, activeElement,
          renderedIsOpen>>

----------------------------------------------------------------------------
(* Bounds and props constants *)

NumDays == 4        \* days of the modelled month: 1..NumDays
NumLoose == 1       \* number of days that can also be typed without padding
MinDate == 2        \* props.minDate (a day of the month)
MaxDate == 3        \* props.maxDate (a day of the month)

Days == 1..NumDays
InRangeDays == {d \in Days : MinDate <= d /\ d <= MaxDate}

----------------------------------------------------------------------------
(* Values: JS null, moment objects, Date objects, strings *)

\* the JS value null (or undefined) where a moment or a Date is expected
JSNull == [kind |-> "null", day |-> 0]
\* moment(null): an invalid moment whose parsingFlags().nullInput is true
NullMoment == [kind |-> "nullInput", day |-> 0]
\* a moment that failed to parse: isValid() is false, nullInput is false
InvalidMoment == [kind |-> "invalid", day |-> 0]
\* a valid moment on day d
ValidMoment(d) == [kind |-> "valid", day |-> d]
\* a valid Date on day d
DateOf(d) == [kind |-> "date", day |-> d]
\* new Date(undefined): a Date whose valueOf() is NaN
InvalidDate == [kind |-> "invalidDate", day |-> 0]

Moments == {JSNull, NullMoment, InvalidMoment} \cup {ValidMoment(d) : d \in Days}

\* the JS value null where a string is expected (startDateValueString: null)
NullString == "<null>"
\* props.invalidDateMessage as an owner configures it (the tests' custom
\* message): it differs from the text moment gives an invalid moment
invalidDateMessage == "Custom invalid-date message"
\* props.outOfRangeMessage (defaultProps)
outOfRangeMessage == "Out of range"
\* what moment's format() returns for an invalid moment
MomentInvalidDateText == "Invalid date"
\* a text that is no date
InvalidStr == "<this is an invalid date string>"

Pad2(d) == IF d < 10 THEN "0" \o ToString(d) ELSE ToString(d)

\* the texts of the modelled days, computed once
FormatTable == [d \in Days |-> "2017-01-" \o Pad2(d)]
LooseTable == [d \in Days |-> "2017-1-" \o ToString(d)]

\* moment.format("YYYY-MM-DD") of a valid moment on day d
FormatDay(d) == FormatTable[d]
\* the same day typed without zero padding; moment's forgiving parse accepts it
LooseDay(d) == LooseTable[d]

\* value.format(this.props.format)
Format(m) == IF m.kind = "valid" THEN FormatDay(m.day) ELSE MomentInvalidDateText

\* the texts moment parses to a valid moment with this format, each with the
\* moment it gives, computed once
ParseTable ==
    [text \in {FormatDay(d) : d \in Days} \cup {LooseDay(d) : d \in Days} |->
        ValidMoment(CHOOSE d \in Days : text \in {FormatDay(d), LooseDay(d)})]

\* moment(valueString, this.props.format)
Parse(text) ==
    IF text = NullString THEN NullMoment
    ELSE IF text \in DOMAIN ParseTable THEN ParseTable[text]
         ELSE InvalidMoment

\* the texts an input's change event can carry: the empty text, a text that
\* is no date, the text of the error message itself (no date either, and the
\* text the blur handler's out-of-sync test compares with), and dates
Texts ==
    {"", InvalidStr, invalidDateMessage} \cup {FormatDay(d) : d \in Days}
        \cup {LooseDay(d) : d \in {x \in Days : MinDate <= x /\ x < MinDate + NumLoose}}

\* fromDateToMoment (common/dateUtils): null gives moment(null)
fromDateToMoment(date) ==
    IF date.kind = "date" THEN ValidMoment(date.day) ELSE NullMoment

\* fromMomentToDate (common/dateUtils)
fromMomentToDate(m) ==
    IF m.kind = "valid" THEN DateOf(m.day)
    ELSE IF m.kind = "null" THEN JSNull ELSE InvalidDate

\* fromDateRangeToMomentArray (common/dateUtils)
fromDateRangeToMomentArray(range) ==
    <<fromDateToMoment(range[1]), fromDateToMoment(range[2])>>

\* value.isValid()
isValid(m) == m.kind = "valid"

\* a.isBefore(b), a a moment: false when either side is not a valid moment
isBefore(a, b) == a.kind = "valid" /\ b.kind = "valid" /\ a.day < b.day

\* a.isAfter(b)
isAfter(a, b) == a.kind = "valid" /\ b.kind = "valid" /\ a.day > b.day

\* isNull(value): value == null || value.parsingFlags().nullInput
isNull(m) == m.kind \in {"null", "nullInput"}

\* dateIsInRange with isBetween's exclusive bounds "()"
dateIsInRange_Exclusive(m) == m.kind = "valid" /\ MinDate < m.day /\ m.day < MaxDate

\* dateIsInRange(value): isBetween(minDate, maxDate, "day", "[]")
dateIsInRange(m) == m.kind = "valid" /\ MinDate <= m.day /\ m.day <= MaxDate

\* isDateValidAndInRange(value)
isDateValidAndInRange(m) == m.kind # "null" /\ isValid(m) /\ dateIsInRange(m)

\* getDateStringForDisplay(value)
getDateStringForDisplay(m) ==
    IF isNull(m) THEN ""
    ELSE IF ~isValid(m) THEN invalidDateMessage
    ELSE IF ~dateIsInRange(m) THEN outOfRangeMessage
    ELSE Format(m)

----------------------------------------------------------------------------
(* Props *)

Undefined == <<>>

\* an endpoint of a DateRange: null or a Date on a day of the month
PickerDates == {JSNull} \cup {DateOf(d) : d \in Days}

\* a DateRange the picker can report: endpoints null or days of the month,
\* the start not after the end and, unless allowSingle, not on the same day.
\* render passes the DateRangePicker no minDate and no maxDate, so its days
\* are not bounded by the input's [minDate, maxDate]
WellFormedRanges(allowSingle) ==
    {r \in PickerDates \X PickerDates :
        \/ r[1] = JSNull
        \/ r[2] = JSNull
        \/ r[1].day < r[2].day
        \/ (allowSingle /\ r[1].day = r[2].day)}

\* a DateRange an owner supplies as value: endpoints null or days within
\* [minDate, maxDate], the start before the end
OwnerRanges ==
    {r \in WellFormedRanges(FALSE) :
        \A i \in 1..2 : r[i] = JSNull \/ r[i].day \in InRangeDays}

isControlled(p) == p.value # Undefined

\* getDefaultDateRange()
getDefaultDateRange(p) ==
    IF p.defaultValue # Undefined
    THEN fromDateRangeToMomentArray(p.defaultValue)
    ELSE fromDateRangeToMomentArray(<<JSNull, JSNull>>)

\* constructor that seeds the state from defaultValue alone, as a component
\* without the value prop would
constructor_IgnoresValue(p) ==
    LET def == getDefaultDateRange(p)
    IN [endDateValue |-> def[2],
        endDateValueString |-> NullString,
        isEndDateInputFocused |-> FALSE,
        isOpen |-> FALSE,
        isStartDateInputFocused |-> FALSE,
        startDateValue |-> def[1],
        startDateValueString |-> NullString]

\* constructor: the initial state
constructor(p) ==
    LET def == getDefaultDateRange(p)
        startDateValue == IF p.value # Undefined /\ p.value[1] # JSNull
                          THEN fromDateToMoment(p.value[1]) ELSE def[1]
        endDateValue == IF p.value # Undefined /\ p.value[2] # JSNull
                        THEN fromDateToMoment(p.value[2]) ELSE def[2]
    IN [endDateValue |-> endDateValue,
        endDateValueString |-> NullString,
        isEndDateInputFocused |-> FALSE,
        isOpen |-> FALSE,
        isStartDateInputFocused |-> FALSE,
        startDateValue |-> startDateValue,
        startDateValueString |-> NullString]

----------------------------------------------------------------------------
(* render(): the values and strings the two inputs are given *)

\* render: const startDateValue
renderStartDateValue(st) ==
    IF st.isStartDateInputFocused
    THEN Parse(st.startDateValueString) ELSE st.startDateValue

\* render: const endDateValue
renderEndDateValue(st) ==
    IF st.isEndDateInputFocused
    THEN Parse(st.endDateValueString) ELSE st.endDateValue

\* render calls endDateValue.isBefore(...) and startDateValue.isAfter(...):
\* a TypeError when the receiver is the JS value null
renderThrows(st) ==
    renderStartDateValue(st) = JSNull \/ renderEndDateValue(st) = JSNull

\* render: const startDateString, the start input's value attribute
startDateString(st) ==
    IF st.isStartDateInputFocused
    THEN st.startDateValueString
    ELSE getDateStringForDisplay(st.startDateValue)

\* render: const endDateString, the end input's value attribute
endDateString(st) ==
    IF st.isEndDateInputFocused
    THEN st.endDateValueString
    ELSE IF isBefore(renderEndDateValue(st), renderStartDateValue(st))
         THEN "Invalid end date"
         ELSE getDateStringForDisplay(st.endDateValue)

\* what render() puts on screen, or the fact that it throws
render(st) ==
    IF renderThrows(st)
    THEN [threw |-> TRUE, start |-> NullString, end |-> NullString]
    ELSE [threw |-> FALSE, start |-> startDateString(st), end |-> endDateString(st)]

\* toDateRange (common/dateUtils)
toDateRange(startDate, endDate) == <<startDate, endDate>>

\* endDate < startDate on Date | null operands: null converts to 0, a date
\* of the modelled month to a positive number of milliseconds
dateLessThan(a, b) ==
    IF a.kind = "date" /\ b.kind = "date" THEN a.day < b.day
    ELSE a.kind = "null" /\ b.kind = "date"

\* getCurrentDateRange without the endDate < startDate test
getCurrentDateRange_KeepsBothDates(st) ==
    LET startDate == IF isDateValidAndInRange(st.startDateValue)
                     THEN fromMomentToDate(st.startDateValue) ELSE JSNull
        endDate == IF isDateValidAndInRange(st.endDateValue)
                   THEN fromMomentToDate(st.endDateValue) ELSE JSNull
    IN toDateRange(startDate, endDate)

\* getCurrentDateRange(): the value handed to the DateRangePicker
getCurrentDateRange(st) ==
    LET startDate == IF isDateValidAndInRange(st.startDateValue)
                     THEN fromMomentToDate(st.startDateValue) ELSE JSNull
        endDate == IF isDateValidAndInRange(st.endDateValue)
                   THEN fromMomentToDate(st.endDateValue) ELSE JSNull
    IN IF dateLessThan(endDate, startDate)
       THEN toDateRange(startDate, JSNull)
       ELSE toDateRange(startDate, endDate)

----------------------------------------------------------------------------
(* Event handlers: each gives the next state and the callbacks it invokes *)

Result(st, changes, errors) == [state |-> st, onChange |-> changes, onError |-> errors]

\* handleGenericInputFocus that fills the edit buffer with the text an
\* unfocused field displays (an error message for an invalid or out-of-range
\* value)
handleGenericInputFocus_ShowsDisplayText(st, p, value, valueStringKey, focusStateKey) ==
    LET valueString == getDateStringForDisplay(value)
    IN IF p.openOnFocus
       THEN Result([st EXCEPT ![focusStateKey] = TRUE,
                              ![valueStringKey] = valueString,
                              !.isOpen = TRUE], <<>>, <<>>)
       ELSE Result([st EXCEPT ![focusStateKey] = TRUE,
                              ![valueStringKey] = valueString], <<>>, <<>>)

\* handleGenericInputFocus that opens the popover whatever openOnFocus says
handleGenericInputFocus_AlwaysOpens(st, p, value, valueStringKey, focusStateKey) ==
    LET valueString == IF isNull(value) THEN "" ELSE Format(value)
    IN Result([st EXCEPT ![focusStateKey] = TRUE,
                         ![valueStringKey] = valueString,
                         !.isOpen = TRUE], <<>>, <<>>)

\* handleGenericInputFocus that sets the focus flag (and opens the popover)
\* without filling the edit buffer
handleGenericInputFocus_LeavesBuffer(st, p, value, valueStringKey, focusStateKey) ==
    IF p.openOnFocus
    THEN Result([st EXCEPT ![focusStateKey] = TRUE, !.isOpen = TRUE], <<>>, <<>>)
    ELSE Result([st EXCEPT ![focusStateKey] = TRUE], <<>>, <<>>)

\* handleGenericInputFocus(e, value, valueStringKey, focusStateKey)
handleGenericInputFocus(st, p, value, valueStringKey, focusStateKey) ==
    LET valueString == IF isNull(value) THEN "" ELSE Format(value)
    IN IF p.openOnFocus
       THEN Result([st EXCEPT ![focusStateKey] = TRUE,
                              ![valueStringKey] = valueString,
                              !.isOpen = TRUE], <<>>, <<>>)
       ELSE Result([st EXCEPT ![focusStateKey] = TRUE,
                              ![valueStringKey] = valueString], <<>>, <<>>)

\* handleStartDateInputFocus
handleStartDateInputFocus(st, p) ==
    handleGenericInputFocus(st, p, st.startDateValue,
                            "startDateValueString", "isStartDateInputFocused")

\* handleEndDateInputFocus
handleEndDateInputFocus(st, p) ==
    handleGenericInputFocus(st, p, st.endDateValue,
                            "endDateValueString", "isEndDateInputFocused")

\* handleGenericInputBlur whose empty-text branch commits the parsed text
\* (an invalid moment) like the branch for invalid text
handleGenericInputBlur_ParsesEmptyText(st, p, valueString, valueKey, valueStringKey, focusStatusKey) ==
    LET value == Parse(valueString)
        isValueInvalid == ~isValid(value)
        isValueOutOfRange == ~dateIsInRange(value)
        isValueStringOutOfSync ==
            valueString # getDateStringForDisplay(st.startDateValue)
        isInputEmpty == valueString = ""
        didInputChangeToInvalidState ==
            ~isInputEmpty /\ isValueStringOutOfSync
                /\ (isValueInvalid \/ isValueOutOfRange)
    IN IF valueString = NullString THEN Result(st, <<>>, <<>>)
       ELSE IF isInputEmpty
       THEN Result([st EXCEPT ![focusStatusKey] = FALSE,
                              ![valueKey] = value,
                              ![valueStringKey] = NullString], <<>>, <<>>)
       ELSE IF didInputChangeToInvalidState
       THEN IF ~isControlled(p)
            THEN Result([st EXCEPT ![focusStatusKey] = FALSE,
                                   ![valueKey] = value,
                                   ![valueStringKey] = NullString], <<>>, <<>>)
            ELSE Result([st EXCEPT ![focusStatusKey] = FALSE], <<>>, <<>>)
       ELSE Result([st EXCEPT ![focusStatusKey] = FALSE], <<>>, <<>>)

\* handleGenericInputBlur(valueString, valueKey, valueStringKey, focusStatusKey)
\* valueString.length throws on a null string, before any setState
handleGenericInputBlur(st, p, valueString, valueKey, valueStringKey, focusStatusKey) ==
    LET value == Parse(valueString)
        isValueInvalid == ~isValid(value)
        isValueOutOfRange == ~dateIsInRange(value)
        isValueStringOutOfSync ==
            valueString # getDateStringForDisplay(st.startDateValue)
        isInputEmpty == valueString = ""
        didInputChangeToInvalidState ==
            ~isInputEmpty /\ isValueStringOutOfSync
                /\ (isValueInvalid \/ isValueOutOfRange)
    IN IF valueString = NullString THEN Result(st, <<>>, <<>>)
       ELSE IF isInputEmpty
       THEN Result([st EXCEPT ![focusStatusKey] = FALSE,
                              ![valueKey] = NullMoment,
                              ![valueStringKey] = NullString], <<>>, <<>>)
       ELSE IF didInputChangeToInvalidState
       THEN IF ~isControlled(p)
            THEN Result([st EXCEPT ![focusStatusKey] = FALSE,
                                   ![valueKey] = value,
                                   ![valueStringKey] = NullString], <<>>, <<>>)
            ELSE Result([st EXCEPT ![focusStatusKey] = FALSE], <<>>, <<>>)
       ELSE Result([st EXCEPT ![focusStatusKey] = FALSE], <<>>, <<>>)

\* handleStartDateInputBlur
handleStartDateInputBlur(st, p) ==
    handleGenericInputBlur(st, p, st.startDateValueString, "startDateValue",
                           "startDateValueString", "isStartDateInputFocused")

\* handleEndDateInputBlur
handleEndDateInputBlur(st, p) ==
    handleGenericInputBlur(st, p, st.endDateValueString, "endDateValue",
                           "endDateValueString", "isEndDateInputFocused")

\* handleGenericInputChange with the pending onChange call (the TODO of the
\* valid branch) placed after the if/else chain, so that it runs for every
\* non-empty text
handleGenericInputChange_NotifiesEveryText(st, p, valueString, valueKey, valueStringKey) ==
    LET value == Parse(valueString)
        notified == <<IF valueKey = "startDateValue"
                      THEN <<fromMomentToDate(value), JSNull>>
                      ELSE <<JSNull, fromMomentToDate(value)>> >>
    IN IF valueString = ""
       THEN Result([st EXCEPT ![valueKey] = JSNull,
                              ![valueStringKey] = ""], <<>>, <<>>)
       ELSE IF isValid(value) /\ dateIsInRange(value)
       THEN IF ~isControlled(p)
            THEN Result([st EXCEPT ![valueKey] = value,
                                   ![valueStringKey] = valueString], notified, <<>>)
            ELSE Result([st EXCEPT ![valueStringKey] = valueString], notified, <<>>)
       ELSE Result([st EXCEPT ![valueKey] = value,
                              ![valueStringKey] = valueString], notified, <<>>)

\* handleGenericInputChange that treats an uncontrolled component as the
\* controlled one: valid in-range text goes to the edit buffer only
handleGenericInputChange_BufferOnly(st, p, valueString, valueKey, valueStringKey) ==
    LET value == Parse(valueString)
    IN IF valueString = ""
       THEN Result([st EXCEPT ![valueKey] = JSNull,
                              ![valueStringKey] = ""], <<>>, <<>>)
       ELSE IF isValid(value) /\ dateIsInRange(value)
       THEN Result([st EXCEPT ![valueStringKey] = valueString], <<>>, <<>>)
       ELSE Result([st EXCEPT ![valueKey] = value,
                              ![valueStringKey] = valueString], <<>>, <<>>)

\* handleGenericInputChange(valueString, valueKey, valueStringKey)
handleGenericInputChange(st, p, valueString, valueKey, valueStringKey) ==
    LET value == Parse(valueString)
    IN IF valueString = ""
       THEN Result([st EXCEPT ![valueKey] = JSNull,
                              ![valueStringKey] = ""], <<>>, <<>>)
       ELSE IF isValid(value) /\ dateIsInRange(value)
       THEN IF ~isControlled(p)
            THEN Result([st EXCEPT ![valueKey] = value,
                                   ![valueStringKey] = valueString], <<>>, <<>>)
            ELSE Result([st EXCEPT ![valueStringKey] = valueString], <<>>, <<>>)
       ELSE Result([st EXCEPT ![valueKey] = value,
                              ![valueStringKey] = valueString], <<>>, <<>>)

\* handleStartDateInputChange
handleStartDateInputChange(st, p, valueString) ==
    handleGenericInputChange(st, p, valueString, "startDateValue", "startDateValueString")

\* handleEndDateInputChange
handleEndDateInputChange(st, p, valueString) ==
    handleGenericInputChange(st, p, valueString, "endDateValue", "endDateValueString")

\* handleDateRangeChange that marks the end field focused whenever the end
\* date is null, also when the start date is null
handleDateRangeChange_FocusesEmptyEnd(st, p, dateRange) ==
    LET startDate == dateRange[1]
        endDate == dateRange[2]
        startDateValue == fromDateToMoment(startDate)
        endDateValue == fromDateToMoment(endDate)
    IN Result([st EXCEPT !.endDateValue = endDateValue,
                         !.endDateValueString =
                             IF endDate # JSNull THEN Format(endDateValue) ELSE "",
                         !.isEndDateInputFocused = endDate = JSNull,
                         !.isStartDateInputFocused = startDate = JSNull,
                         !.startDateValue = startDateValue,
                         !.startDateValueString =
                             IF startDate # JSNull THEN Format(startDateValue) ELSE ""],
              <<>>, <<>>)

\* handleDateRangeChange(dateRange): the DateRangePicker's onChange
handleDateRangeChange(st, p, dateRange) ==
    LET startDate == dateRange[1]
        endDate == dateRange[2]
        startDateValue == fromDateToMoment(startDate)
        endDateValue == fromDateToMoment(endDate)
        startDateValueString == IF startDate # JSNull THEN Format(startDateValue) ELSE ""
        endDateValueString == IF endDate # JSNull THEN Format(endDateValue) ELSE ""
        isStartDateInputFocused == startDate = JSNull
        isEndDateInputFocused == startDate # JSNull /\ endDate = JSNull
    IN Result([st EXCEPT !.endDateValue = endDateValue,
                         !.endDateValueString = endDateValueString,
                         !.isEndDateInputFocused = isEndDateInputFocused,
                         !.isStartDateInputFocused = isStartDateInputFocused,
                         !.startDateValue = startDateValue,
                         !.startDateValueString = startDateValueString], <<>>, <<>>)

----------------------------------------------------------------------------
(* The two input elements: blur(), focus() and the events they raise *)

Other(b) == IF b = "start" THEN "end" ELSE "start"
FocusedOf(st, b) == IF b = "start" THEN st.isStartDateInputFocused ELSE st.isEndDateInputFocused

\* the onFocus and onBlur handlers render wires to the input of boundary b
FocusOf(st, p, b) ==
    IF b = "start" THEN handleStartDateInputFocus(st, p)
    ELSE handleEndDateInputFocus(st, p)
BlurOf(st, p, b) ==
    IF b = "start" THEN handleStartDateInputBlur(st, p)
    ELSE handleEndDateInputBlur(st, p)

\* a handler's result together with document.activeElement
Dom(result, active) ==
    [state |-> result.state, activeElement |-> active,
     onChange |-> result.onChange, onError |-> result.onError]

\* r followed by a handler's result
Then(r, result, active) ==
    [state |-> result.state, activeElement |-> active,
     onChange |-> r.onChange \o result.onChange,
     onError |-> r.onError \o result.onError]

\* <input b>.blur(): on the element that holds the focus it moves the focus
\* to the body and raises the blur event at once, so the onBlur handler runs
\* before blur() returns; on any other element, or out of the document, it
\* does nothing
blur(r, p, att, b) ==
    IF att /\ r.activeElement = b
    THEN Then(r, BlurOf(r.state, p, b), "body")
    ELSE r

\* <input b>.focus(): on an element in the document that does not hold the
\* focus it raises blur on the input that held it, then focus on b, and both
\* handlers run before focus() returns; otherwise it does nothing
focus(r, p, att, b) ==
    IF att /\ r.activeElement # b
    THEN LET left == blur(r, p, att, Other(b))
         IN Then(left, FocusOf(left.state, p, b), b)
    ELSE r

\* componentDidUpdate(): moves the DOM focus to the input whose focused flag
\* is set; it runs again after the update the raised events make.  React
\* calls it after an update whose render() returned, not after one that threw
RECURSIVE componentDidUpdate(_, _, _)
componentDidUpdate(r, p, att) ==
    IF renderThrows(r.state) THEN r
    ELSE IF r.state.isStartDateInputFocused /\ r.activeElement # "start"
    THEN LET updated == focus(r, p, att, "start")
         IN IF updated = r THEN r ELSE componentDidUpdate(updated, p, att)
    ELSE IF r.state.isEndDateInputFocused /\ r.activeElement # "end"
    THEN LET updated == focus(r, p, att, "end")
         IN IF updated = r THEN r ELSE componentDidUpdate(updated, p, att)
    ELSE r

\* handleIconClick: opens the popover when it is closed and, in both
\* branches, calls blur() on the start input and then on the end input.  Only
\* the branch that opens the popover calls e.stopPropagation(): while the
\* popover is open the click goes on to the Popover
handleIconClick(st, p, att, active) ==
    LET opened == IF st.isOpen THEN st ELSE [st EXCEPT !.isOpen = TRUE]
        clicked == Dom(Result(opened, <<>>, <<>>), active)
        blurred == blur(blur(clicked, p, att, "start"), p, att, "end")
    IN [state |-> blurred.state, activeElement |-> blurred.activeElement,
        onChange |-> blurred.onChange, onError |-> blurred.onError,
        propagationStopped |-> ~st.isOpen]

\* handleClosePopover
handleClosePopover(st, p) == Result([st EXCEPT !.isOpen = FALSE], <<>>, <<>>)

----------------------------------------------------------------------------
(* The state machine *)

Event(type, boundary, text, range) ==
    [type |-> type, boundary |-> boundary, text |-> text, range |-> range]

NoRange == <<JSNull, JSNull>>

\* the ranges a component is mounted with: one of each shape (both dates, a
\* start date only, an end date only, no date)
InitRanges ==
    {<<DateOf(MinDate), DateOf(MaxDate)>>, <<DateOf(MaxDate), JSNull>>,
     <<JSNull, DateOf(MinDate)>>, <<JSNull, JSNull>>}

\* the props a component is mounted with: uncontrolled without or with a
\* defaultValue, or controlled with a value that holds a date; openOnFocus
\* and allowSingleDayRange as in defaultProps
InitProps ==
    {[value |-> Undefined, defaultValue |-> dv,
      openOnFocus |-> TRUE, allowSingleDayRange |-> FALSE] :
        dv \in {Undefined} \cup InitRanges}
    \cup
    {[value |-> v, defaultValue |-> Undefined,
      openOnFocus |-> TRUE, allowSingleDayRange |-> FALSE] :
        v \in InitRanges \ {<<JSNull, JSNull>>}}

\* the props a component is mounted in the document with: no range, or the
\* range from MinDate to MaxDate
InDocumentProps(p) ==
    /\ p.value \in {Undefined, <<DateOf(MinDate), DateOf(MaxDate)>>}
    /\ p.defaultValue \in {Undefined, <<DateOf(MinDate), DateOf(MaxDate)>>}

\* the document after mounting: the component out of it (with any props) or
\* in it, the focus on no input
InitDocument ==
    /\ attached \in (IF InDocumentProps(props) THEN BOOLEAN ELSE {FALSE})
    /\ activeElement = "body"
    /\ renderedIsOpen = state.isOpen

Init ==
    /\ props \in InitProps
    /\ state = constructor(props)
    /\ onChangeCalls = <<>>
    /\ onErrorCalls = <<>>
    /\ lastEvent = Event("mount", "none", NullString, NoRange)
    /\ InitDocument

\* what the Popover shows after an update: the isOpen of the last render()
\* that returned (the one before or the one after componentDidUpdate's
\* events), else what it showed before
rendered(before, st, updated) ==
    IF ~renderThrows(updated) THEN updated.isOpen
    ELSE IF ~renderThrows(st) THEN st.isOpen
    ELSE before

\* the state after an event: the handlers' updates, then componentDidUpdate
Apply(r, event) ==
    \E updated \in {componentDidUpdate(r, props, attached)} :
       /\ state' = updated.state
       /\ activeElement' = updated.activeElement
       /\ onChangeCalls' = updated.onChange
       /\ onErrorCalls' = updated.onError
       /\ lastEvent' = event
       /\ renderedIsOpen' = rendered(renderedIsOpen, r.state, updated.state)
       /\ UNCHANGED <<props, attached>>

\* a focus event on input b: in the document the focus moves to b from
\* another element (the input that held it gets its blur event first); out of
\* the document the event is simulated on the element
focusEvent(st, p, att, active, b) ==
    IF att THEN focus(Dom(Result(st, <<>>, <<>>), active), p, att, b)
    ELSE Dom(FocusOf(st, p, b), active)

\* a blur event on input b: in the document the focus leaves b for the body
blurEvent(st, p, att, active, b) ==
    IF att THEN blur(Dom(Result(st, <<>>, <<>>), active), p, att, b)
    ELSE Dom(BlurOf(st, p, b), active)

\* a focus event reaches an input: in the document one that does not hold
\* the focus; out of the document any input, in any state
FocusStart ==
    /\ attached => activeElement # "start"
    /\ Apply(focusEvent(state, props, attached, activeElement, "start"),
             Event("focus", "start", NullString, NoRange))

FocusEnd ==
    /\ attached => activeElement # "end"
    /\ Apply(focusEvent(state, props, attached, activeElement, "end"),
             Event("focus", "end", NullString, NoRange))

BlurStart ==
    /\ attached => activeElement = "start"
    /\ Apply(blurEvent(state, props, attached, activeElement, "start"),
             Event("blur", "start", state.startDateValueString, NoRange))

BlurEnd ==
    /\ attached => activeElement = "end"
    /\ Apply(blurEvent(state, props, attached, activeElement, "end"),
             Event("blur", "end", state.endDateValueString, NoRange))

\* typing in an input: in the document only the input that holds the focus
\* takes text
ChangeStart ==
    /\ attached => activeElement = "start"
    /\ \E text \in Texts :
          Apply(Dom(handleStartDateInputChange(state, props, text), activeElement),
                Event("change", "start", text, NoRange))

ChangeEnd ==
    /\ attached => activeElement = "end"
    /\ \E text \in Texts :
          Apply(Dom(handleEndDateInputChange(state, props, text), activeElement),
                Event("change", "end", text, NoRange))

\* the DateRangePicker is the popover's content: it is on screen, and reports
\* a range, only while the Popover shows itself open.  After a render() that
\* threw, what is on screen is the last render that returned
DateRangeChange ==
    /\ renderedIsOpen
    /\ \E range \in WellFormedRanges(props.allowSingleDayRange) :
          Apply(Dom(handleDateRangeChange(state, props, range), activeElement),
                Event("dateRangeChange", "none", NullString, range))

\* a click that reaches the Popover, whose target holds the two inputs and
\* the icon: the Popover, with the isOpen render gave it last, answers a click
\* on its target while it is open by calling onClose, which is
\* handleClosePopover
popoverTargetClick(r, p, isOpen) ==
    IF isOpen
    THEN Then(r, handleClosePopover(r.state, p), r.activeElement)
    ELSE Then(r, Result(r.state, <<>>, <<>>), r.activeElement)

\* a click on the calendar icon: handleIconClick and, unless it stopped the
\* propagation, the Popover's answer to the click
IconClick ==
    \E clicked \in {handleIconClick(state, props, attached, activeElement)} :
        Apply(IF clicked.propagationStopped
              THEN Then(clicked, Result(clicked.state, <<>>, <<>>), clicked.activeElement)
              ELSE popoverTargetClick(clicked, props, renderedIsOpen),
              Event("iconClick", "none", NullString, NoRange))

ClosePopover ==
    Apply(Dom(handleClosePopover(state, props), activeElement),
          Event("closePopover", "none", NullString, NoRange))

Next ==
    \/ FocusStart
    \/ FocusEnd
    \/ BlurStart
    \/ BlurEnd
    \/ ChangeStart
    \/ ChangeEnd
    \/ DateRangeChange
    \/ IconClick
    \/ ClosePopover

Spec == Init /\ [][Next]_vars

----------------------------------------------------------------------------
(* The owner of a controlled component: mounting with value and defaultValue
   together, and supplying a new value later *)

\* the props of a controlled component whose owner sets defaultValue as well
\* (Init covers the controlled component without defaultValue)
InitPropsOwner ==
    {[value |-> v, defaultValue |-> <<DateOf(MinDate), DateOf(MaxDate)>>,
      openOnFocus |-> TRUE, allowSingleDayRange |-> FALSE] :
        v \in OwnerRanges}

InitOwner ==
    /\ props \in InitPropsOwner
    /\ state = constructor(props)
    /\ onChangeCalls = <<>>
    /\ onErrorCalls = <<>>
    /\ lastEvent = Event("mount", "none", NullString, NoRange)
    /\ InitDocument

\* the owner re-renders the component with a new value prop.  The class
\* defines no componentWillReceiveProps: the props are replaced, the state is
\* kept and no callback is invoked; componentDidUpdate runs after the update
ReceiveValue ==
    /\ isControlled(props)
    /\ \E range \in OwnerRanges :
          /\ range # props.value
          /\ props' = [props EXCEPT !.value = range]
          /\ lastEvent' = Event("receiveValue", "none", NullString, range)
          /\ \E updated \in {componentDidUpdate(Dom(Result(state, <<>>, <<>>), activeElement),
                                                 props', attached)} :
                /\ state' = updated.state
                /\ activeElement' = updated.activeElement
                /\ onChangeCalls' = updated.onChange
                /\ onErrorCalls' = updated.onError
                /\ renderedIsOpen' = rendered(renderedIsOpen, state, updated.state)
    /\ UNCHANGED attached

NextOwner ==
    \/ Next
    \/ ReceiveValue

SpecOwner == InitOwner /\ [][NextOwner]_vars

----------------------------------------------------------------------------
(* The openOnFocus prop: a component mounted with either setting *)

\* props with openOnFocus true or false: uncontrolled without or with a
\* defaultValue, or controlled
InitPropsPopover ==
    {[value |-> v, defaultValue |-> dv,
      openOnFocus |-> o, allowSingleDayRange |-> FALSE] :
        o \in BOOLEAN,
        v \in {Undefined},
        dv \in {Undefined, <<DateOf(MinDate), DateOf(MaxDate)>>}}
    \cup
    {[value |-> <<DateOf(MinDate), DateOf(MaxDate)>>, defaultValue |-> Undefined,
      openOnFocus |-> o, allowSingleDayRange |-> FALSE] : o \in BOOLEAN}

InitPopover ==
    /\ props \in InitPropsPopover
    /\ state = constructor(props)
    /\ onChangeCalls = <<>>
    /\ onErrorCalls = <<>>
    /\ lastEvent = Event("mount", "none", NullString, NoRange)
    /\ InitDocument

SpecPopover == InitPopover /\ [][Next]_vars

----------------------------------------------------------------------------
(* Vocabulary of the properties *)

Slot(b) == IF b = "start" THEN 1 ELSE 2
ValueOf(st, b) == IF b = "start" THEN st.startDateValue ELSE st.endDateValue
StringOf(st, b) == IF b = "start" THEN st.startDateValueString ELSE st.endDateValueString
ShownIn(r, b) == IF b = "start" THEN r.start ELSE r.end

\* classes of typed text
TextIsInvalid(t) == t # "" /\ t # NullString /\ ~isValid(Parse(t))
TextIsOutOfRange(t) == isValid(Parse(t)) /\ ~dateIsInRange(Parse(t))
TextIsValidInRange(t) == isValid(Parse(t)) /\ dateIsInRange(Parse(t))

\* the typed date v in boundary b puts the start after the end, the other
\* boundary holding a valid in-range date
Overlaps(st, b, v) ==
    LET o == ValueOf(st, Other(b))
    IN /\ isValid(v) /\ isDateValidAndInRange(o)
       /\ IF b = "start" THEN v.day > o.day ELSE o.day > v.day

\* the typed date v in boundary b is consistent with the other boundary: the
\* other boundary is unset, or holds a valid in-range date on the right side
ConsistentWithOther(st, p, b, v) ==
    LET o == ValueOf(st, Other(b))
    IN \/ isNull(o)
       \/ /\ isDateValidAndInRange(o)
          /\ IF b = "start" THEN v.day < o.day ELSE o.day < v.day

\* the Date (or null) a callback is given for a committed value
DateOrNull(m) == IF isNull(m) THEN JSNull ELSE fromMomentToDate(m)

\* the text a field shows for an endpoint of a DateRange
TextOfDate(date) == IF date = JSNull THEN "" ELSE FormatDay(date.day)

LastIsEdit == lastEvent.type = "change"
LastIsBlur == lastEvent.type = "blur" /\ lastEvent.text # NullString
LastTextIsBad ==
    \/ TextIsInvalid(lastEvent.text)
    \/ TextIsOutOfRange(lastEvent.text)
    \/ /\ TextIsValidInRange(lastEvent.text)
       /\ Overlaps(state, lastEvent.boundary, Parse(lastEvent.text))

----------------------------------------------------------------------------
(* C1 *)

\* C1: in controlled and in uncontrolled mode, an edit or a blur whose text is
\* invalid, out of [minDate, maxDate] or (both boundaries set) puts the start
\* after the end does not invoke onChange.
C1_NoOnChangeOnBadText ==
    ((LastIsEdit \/ LastIsBlur) /\ LastTextIsBad) => onChangeCalls = <<>>

\* C1 witness: a field was blurred with overlapping text after such an edit
C1_Witness ==
    /\ LastIsBlur
    /\ TextIsValidInRange(lastEvent.text)
    /\ Overlaps(state, lastEvent.boundary, Parse(lastEvent.text))
    /\ onChangeCalls = <<>>

----------------------------------------------------------------------------
(* C2 *)

\* C2: for every text that does not parse as a date, the edits do not invoke
\* onError and the blur of that field invokes it exactly once, with the
\* invalid-date sentinel in the edited boundary's slot.
C2_OnErrorOnInvalidBlur ==
    /\ (LastIsEdit /\ TextIsInvalid(lastEvent.text)) => onErrorCalls = <<>>
    /\ (LastIsBlur /\ TextIsInvalid(lastEvent.text)) =>
          /\ Len(onErrorCalls) = 1
          /\ onErrorCalls[1][Slot(lastEvent.boundary)] = InvalidDate

----------------------------------------------------------------------------
(* C3 *)

\* C3: for every valid date outside [minDate, maxDate] typed into a field,
\* onError is not invoked before the blur, and the blur invokes it once with
\* the date in the edited slot and the other boundary's current value (null
\* when empty) in the other slot.
C3_OnErrorOnOutOfRangeBlur ==
    /\ (LastIsEdit /\ TextIsOutOfRange(lastEvent.text)) => onErrorCalls = <<>>
    /\ (LastIsBlur /\ TextIsOutOfRange(lastEvent.text)) =>
          /\ Len(onErrorCalls) = 1
          /\ onErrorCalls[1][Slot(lastEvent.boundary)]
                = fromMomentToDate(Parse(lastEvent.text))
          /\ onErrorCalls[1][Slot(Other(lastEvent.boundary))]
                = DateOrNull(ValueOf(state, Other(lastEvent.boundary)))

----------------------------------------------------------------------------
(* C4 *)

\* C4: in uncontrolled mode an edit that sets a field's text to a valid
\* in-range date consistent with the other boundary invokes onChange exactly
\* once, with the new date in the edited slot and the other boundary's
\* current value (null if empty) in the other slot.
C4_OnChangeOnValidEdit ==
    (/\ ~isControlled(props)
     /\ LastIsEdit
     /\ TextIsValidInRange(lastEvent.text)
     /\ ConsistentWithOther(state, props, lastEvent.boundary, Parse(lastEvent.text)))
    => /\ Len(onChangeCalls) = 1
       /\ onChangeCalls[1][Slot(lastEvent.boundary)]
             = fromMomentToDate(Parse(lastEvent.text))
       /\ onChangeCalls[1][Slot(Other(lastEvent.boundary))]
             = DateOrNull(ValueOf(state, Other(lastEvent.boundary)))

----------------------------------------------------------------------------
(* C5 *)

\* C5: in uncontrolled mode, after an edit that sets a field's text to a valid
\* in-range date consistent with the other boundary, the field's committed
\* value is the typed date and both fields display the formatted strings of
\* the resulting range.
C5_ValidEditCommitsAndDisplays ==
    (/\ ~isControlled(props)
     /\ LastIsEdit
     /\ TextIsValidInRange(lastEvent.text)
     /\ ConsistentWithOther(state, props, lastEvent.boundary, Parse(lastEvent.text)))
    => /\ ValueOf(state, lastEvent.boundary) = Parse(lastEvent.text)
       /\ ~render(state).threw
       /\ render(state).start = TextOfDate(DateOrNull(state.startDateValue))
       /\ render(state).end = TextOfDate(DateOrNull(state.endDateValue))

----------------------------------------------------------------------------
(* C6 *)

\* C6: in uncontrolled mode with a range [s, e], clearing the text of exactly
\* one field invokes onChange with null in that slot and the other boundary's
\* date in the other slot; afterwards the cleared field displays the empty
\* string and the other field its formatted date.
C6_ClearingOneField ==
    (/\ ~isControlled(props)
     /\ LastIsEdit
     /\ lastEvent.text = ""
     /\ isDateValidAndInRange(ValueOf(state, Other(lastEvent.boundary)))
     /\ ~FocusedOf(state, Other(lastEvent.boundary)))
    => /\ Len(onChangeCalls) = 1
       /\ onChangeCalls[1][Slot(lastEvent.boundary)] = JSNull
       /\ onChangeCalls[1][Slot(Other(lastEvent.boundary))]
             = fromMomentToDate(ValueOf(state, Other(lastEvent.boundary)))
       /\ ~render(state).threw
       /\ ShownIn(render(state), lastEvent.boundary) = ""
       /\ ShownIn(render(state), Other(lastEvent.boundary))
             = Format(ValueOf(state, Other(lastEvent.boundary)))

----------------------------------------------------------------------------
(* C7 *)

\* C7: every range change coming from the calendar picker invokes onChange
\* exactly once with the new range, in uncontrolled and in controlled mode.
C7_OnChangeOnDateRangeChange ==
    lastEvent.type = "dateRangeChange" => onChangeCalls = <<lastEvent.range>>

----------------------------------------------------------------------------
(* C8 *)

\* C8: in uncontrolled mode, after a range change [s, e] from the calendar
\* picker, whatever the focus flags and edit buffers were before, the start
\* field displays format(s) and the end field format(e), the empty string
\* standing for a null endpoint.
C8_DateRangeChangeDisplays ==
    (~isControlled(props) /\ lastEvent.type = "dateRangeChange")
    => /\ ~render(state).threw
       /\ render(state).start = TextOfDate(lastEvent.range[1])
       /\ render(state).end = TextOfDate(lastEvent.range[2])

----------------------------------------------------------------------------
(* C9 *)

\* C9: in controlled mode a range change coming from the calendar picker
\* leaves both fields showing the owner's value.
C9_ControlledDateRangeChangeKeepsDisplay ==
    (isControlled(props) /\ lastEvent.type = "dateRangeChange")
    => /\ ~render(state).threw
       /\ render(state).start = TextOfDate(props.value[1])
       /\ render(state).end = TextOfDate(props.value[2])

----------------------------------------------------------------------------
(* C10 *)

\* C10: in controlled mode, when a valid in-range date has been typed into a
\* field (the owner supplying no new value), the field displays the owner's
\* value once it is unfocused: after the blur, or at once if it was never
\* focused.
C10_ControlledValidEditDiscarded ==
    (/\ isControlled(props)
     /\ LastIsEdit \/ LastIsBlur
     /\ TextIsValidInRange(lastEvent.text)
     /\ ~FocusedOf(state, lastEvent.boundary))
    => /\ ~render(state).threw
       /\ ShownIn(render(state), lastEvent.boundary)
             = TextOfDate(props.value[Slot(lastEvent.boundary)])

----------------------------------------------------------------------------
(* C11 *)

\* C11: in controlled mode, once a field has been focused, its text cleared
\* and the field blurred (a blur whose text is empty), the owner supplying no
\* new value, both fields display the owner's value again.
C11_ControlledClearRestoredOnBlur ==
    (/\ isControlled(props)
     /\ LastIsBlur
     /\ lastEvent.text = ""
     /\ ~FocusedOf(state, Other(lastEvent.boundary)))
    => /\ ~render(state).threw
       /\ render(state).start = TextOfDate(props.value[1])
       /\ render(state).end = TextOfDate(props.value[2])

----------------------------------------------------------------------------
(* C12 *)

\* C12: in controlled mode, when the owner supplies a new value prop, both
\* committed values are replaced by it and both unfocused fields display the
\* formatted dates of the new value.
C12_NewValueReplacesCommitted ==
    lastEvent.type = "receiveValue"
    => /\ state.startDateValue = fromDateToMoment(props.value[1])
       /\ state.endDateValue = fromDateToMoment(props.value[2])
       /\ ~render(state).threw
       /\ ~state.isStartDateInputFocused
             => render(state).start = TextOfDate(props.value[1])
       /\ ~state.isEndDateInputFocused
             => render(state).end = TextOfDate(props.value[2])

----------------------------------------------------------------------------
(* C13 *)

\* C13: when a value prop is supplied at mount, defaultValue is ignored: the
\* initial committed range equals value, a null endpoint of value starting
\* empty even if defaultValue has a date there.
C13_ValueOverridesDefaultValue ==
    (lastEvent.type = "mount" /\ isControlled(props))
    => /\ state.startDateValue = fromDateToMoment(props.value[1])
       /\ state.endDateValue = fromDateToMoment(props.value[2])

----------------------------------------------------------------------------
(* C14 *)

\* the range a component is mounted with: value, else defaultValue, else empty
MountRange(p) ==
    IF isControlled(p) THEN p.value
    ELSE IF p.defaultValue # Undefined THEN p.defaultValue ELSE NoRange

----------------------------------------------------------------------------
(* C15, C16, C18: overlapping dates *)

\* the overlappingDatesMessage an owner configures (the tests' custom message);
\* IDateRangeInputProps declares no such prop and render() never reads it
overlappingDatesMessage == "Custom overlapping-dates message"

\* C15: with a committed range [s, e], typing into the focused start field a
\* valid in-range date later than e makes the unfocused end field display the
\* configured overlappingDatesMessage at once, before any blur.
C15_OverlapShownInEndField ==
    (/\ LastIsEdit
     /\ lastEvent.boundary = "start"
     /\ state.isStartDateInputFocused
     /\ ~state.isEndDateInputFocused
     /\ TextIsValidInRange(lastEvent.text)
     /\ Overlaps(state, "start", Parse(lastEvent.text)))
    => /\ ~render(state).threw
       /\ render(state).end = overlappingDatesMessage

----------------------------------------------------------------------------

\* C16: when a valid in-range date that conflicts with the other boundary is
\* typed into a field, onError is not invoked before the blur and is invoked
\* exactly once by the blur of the edited field, with the typed date in the
\* edited slot and the old conflicting date in the other slot.
C16_OnErrorOnOverlapBlur ==
    /\ (/\ LastIsEdit
        /\ TextIsValidInRange(lastEvent.text)
        /\ Overlaps(state, lastEvent.boundary, Parse(lastEvent.text)))
       => onErrorCalls = <<>>
    /\ (/\ LastIsBlur
        /\ TextIsValidInRange(lastEvent.text)
        /\ Overlaps(state, lastEvent.boundary, Parse(lastEvent.text)))
       => /\ Len(onErrorCalls) = 1
          /\ onErrorCalls[1][Slot(lastEvent.boundary)]
                = fromMomentToDate(Parse(lastEvent.text))
          /\ onErrorCalls[1][Slot(Other(lastEvent.boundary))]
                = fromMomentToDate(ValueOf(state, Other(lastEvent.boundary)))

----------------------------------------------------------------------------

\* C18: a valid in-range date earlier than the start, typed into the focused
\* end field, is shown as typed while the end field is focused, is replaced
\* by the configured overlappingDatesMessage once the end field is blurred,
\* and is shown again when the end field is focused anew.
C18_OverlapInEndField ==
    /\ (/\ LastIsEdit
        /\ lastEvent.boundary = "end"
        /\ state.isEndDateInputFocused
        /\ TextIsValidInRange(lastEvent.text)
        /\ Overlaps(state, "end", Parse(lastEvent.text)))
       => (~render(state).threw /\ render(state).end = lastEvent.text)
    /\ (/\ LastIsBlur
        /\ lastEvent.boundary = "end"
        /\ ~state.isEndDateInputFocused
        /\ TextIsValidInRange(lastEvent.text)
        /\ Overlaps(state, "end", Parse(lastEvent.text)))
       => (~render(state).threw /\ render(state).end = overlappingDatesMessage)

----------------------------------------------------------------------------

\* C17: an edit or a blur of one field never changes the other field's
\* committed value, edit buffer or focus flag; in particular, when the start
\* field has been blurred with a date later than the end date, the end date
\* is still there and focusing the end field shows its formatted date.
C17_OtherFieldUntouched ==
    [][/\ lastEvent'.type \in {"change", "blur"}
          => LET o == Other(lastEvent'.boundary)
             IN /\ ValueOf(state', o) = ValueOf(state, o)
                /\ StringOf(state', o) = StringOf(state, o)
                /\ FocusedOf(state', o) = FocusedOf(state, o)
       /\ (/\ LastIsBlur
           /\ lastEvent.boundary = "start"
           /\ TextIsValidInRange(lastEvent.text)
           /\ Overlaps(state, "start", Parse(lastEvent.text))
           /\ lastEvent'.type = "focus"
           /\ lastEvent'.boundary = "end")
          => /\ state'.endDateValue = state.endDateValue
             /\ ~render(state').threw
             /\ render(state').end = Format(state.endDateValue)]_vars

----------------------------------------------------------------------------

\* C19: for each field independently, whenever the field is not focused and
\* its committed value is an invalid date it displays invalidDateMessage, and
\* whenever it is not focused and its committed value is a valid date outside
\* [minDate, maxDate] it displays outOfRangeMessage, whatever the other
\* field's value or focus state.
C19_ErrorMessagePerField ==
    \A b \in {"start", "end"} :
        LET v == ValueOf(state, b)
        IN /\ (~FocusedOf(state, b) /\ v = InvalidMoment)
              => (~render(state).threw
                  /\ ShownIn(render(state), b) = invalidDateMessage)
           /\ (~FocusedOf(state, b) /\ isValid(v) /\ ~dateIsInRange(v))
              => (~render(state).threw
                  /\ ShownIn(render(state), b) = outOfRangeMessage)

----------------------------------------------------------------------------

\* C20: in uncontrolled mode with the other field empty, once a field that
\* held an error has been focused, given a valid in-range date and blurred,
\* it displays exactly that date's formatted string; stated for every blur
\* that leaves valid in-range text, whatever the field held before.
C20_ValidTextReplacesError ==
    (/\ ~isControlled(props)
     /\ LastIsBlur
     /\ TextIsValidInRange(lastEvent.text)
     /\ ~FocusedOf(state, lastEvent.boundary)
     /\ isNull(ValueOf(state, Other(lastEvent.boundary)))
     /\ ~FocusedOf(state, Other(lastEvent.boundary)))
    => /\ ~render(state).threw
       /\ ShownIn(render(state), lastEvent.boundary)
             = Format(Parse(lastEvent.text))

----------------------------------------------------------------------------

\* C21: in uncontrolled mode, when a field that was blurred with text that is
\* not a date is focused again, it still shows the configured
\* invalidDateMessage.
C21_InvalidMessageKeptOnFocus ==
    [][(/\ ~isControlled(props)
        /\ LastIsBlur
        /\ TextIsInvalid(lastEvent.text)
        /\ lastEvent'.type = "focus"
        /\ lastEvent'.boundary = lastEvent.boundary)
       => /\ ~render(state').threw
          /\ ShownIn(render(state'), lastEvent.boundary) = invalidDateMessage]_vars

----------------------------------------------------------------------------

\* C22: focusing a field marks it focused and sets its edit buffer to the
\* formatted string of its committed value (the empty string when the value
\* is null-like); whenever the component renders after the focus, the focused
\* field shows that buffer, so a field whose committed date is out of range
\* shows the date itself, not outOfRangeMessage.
C22_FocusFillsBuffer ==
    [][lastEvent'.type = "focus"
       => LET b == lastEvent'.boundary
              v == ValueOf(state, b)
          IN /\ FocusedOf(state', b)
             /\ ValueOf(state', b) = v
             /\ StringOf(state', b) = IF isNull(v) THEN "" ELSE Format(v)
             /\ ~render(state').threw
                => /\ ShownIn(render(state'), b) = StringOf(state', b)
                   /\ (isValid(v) /\ ~dateIsInRange(v))
                      => ShownIn(render(state'), b) = FormatDay(v.day)]_vars

C22_Witness ==
    /\ lastEvent.type = "focus"
    /\ lastEvent.boundary = "end"
    /\ state.isEndDateInputFocused
    /\ isValid(state.endDateValue)
    /\ ~dateIsInRange(state.endDateValue)
    /\ ~render(state).threw
    /\ render(state).end = FormatDay(state.endDateValue.day)
    /\ render(state).end # outOfRangeMessage

----------------------------------------------------------------------------

\* C23: in uncontrolled mode, when one boundary holds an invalid date and a
\* valid in-range date is typed into the other field, that edit invokes
\* onChange exactly once, with the typed date in the edited slot and the
\* invalid Date (its value is NaN) in the other slot.
C23_OnChangeBesideInvalidBoundary ==
    (/\ ~isControlled(props)
     /\ LastIsEdit
     /\ TextIsValidInRange(lastEvent.text)
     /\ ValueOf(state, Other(lastEvent.boundary)) = InvalidMoment
     /\ ~FocusedOf(state, Other(lastEvent.boundary)))
    => /\ Len(onChangeCalls) = 1
       /\ onChangeCalls[1][Slot(lastEvent.boundary)]
             = fromMomentToDate(Parse(lastEvent.text))
       /\ onChangeCalls[1][Slot(Other(lastEvent.boundary))] = InvalidDate

----------------------------------------------------------------------------

\* C24: when openOnFocus is true, focusing either field leaves the popover
\* open; when openOnFocus is false, the popover goes from closed to open only
\* through a click on the calendar icon, never through a focus, an edit, a
\* blur or a calendar event.
C24_PopoverOpening ==
    [][/\ (props.openOnFocus /\ lastEvent'.type = "focus") => state'.isOpen
       /\ (~props.openOnFocus /\ ~state.isOpen /\ state'.isOpen)
          => lastEvent'.type = "iconClick"]_vars

C24_Witness ==
    /\ ~props.openOnFocus
    /\ lastEvent.type = "focus"
    /\ state.isStartDateInputFocused
    /\ ~state.isOpen

----------------------------------------------------------------------------

\* the state and the two displays after a focus event and then a blur event
\* on field b, no edit in between, each with the componentDidUpdate after it
FocusThenBlur(b) ==
    LET afterFocus ==
            componentDidUpdate(
                focusEvent(state, props, attached, activeElement, b),
                props, attached)
    IN [focused |-> afterFocus.state,
        blurred |->
            componentDidUpdate(
                blurEvent(afterFocus.state, props, attached,
                          afterFocus.activeElement, b),
                props, attached).state]

\* the focus and the blur left the committed values and the displayed texts
\* of both fields as they were
FocusThenBlurChangedNothing(b) ==
    LET after == FocusThenBlur(b)
    IN /\ FocusedOf(after.focused, b)
       /\ ~FocusedOf(after.blurred, b)
       /\ after.blurred.startDateValue = state.startDateValue
       /\ after.blurred.endDateValue = state.endDateValue
       /\ render(after.blurred) = render(state)

\* C25: from every reachable state, focusing a field (one that is not
\* marked focused and, in a document, does not hold the focus) and blurring
\* it with no edit in between leaves the committed values of both fields and
\* the displayed text of both fields exactly as they were before the focus.
C25_FocusThenBlurChangesNothing ==
    \A b \in {"start", "end"} :
        (~FocusedOf(state, b) /\ (attached => activeElement # b))
        => FocusThenBlurChangedNothing(b)

----------------------------------------------------------------------------

\* C26: in every reachable state and for each field, the edit buffer is
\* non-null only while the field is marked focused: after any blur, and after
\* any calendar range change that leaves a field unfocused, that field's edit
\* buffer is null.
C26_BufferOnlyWhileFocused ==
    \A b \in {"start", "end"} :
        ~FocusedOf(state, b) => StringOf(state, b) = NullString

----------------------------------------------------------------------------

\* C27: when allowSingleDayRange is false, no range derived by the component
\* and handed to the calendar picker has both endpoints set to the same day.
C27_NoSingleDayRangeToPicker ==
    ~props.allowSingleDayRange
    => LET range == getCurrentDateRange(state)
       IN ~(/\ range[1].kind = "date"
            /\ range[2].kind = "date"
            /\ range[1].day = range[2].day)

----------------------------------------------------------------------------

\* C28: in controlled mode no user event changes a committed value: both
\* committed values still equal the owner's value, and the range handed to
\* the calendar picker remains the owner's value whatever the user typed.
C28_ControlledValuesAreTheOwners ==
    isControlled(props)
    => /\ state.startDateValue = fromDateToMoment(props.value[1])
       /\ state.endDateValue = fromDateToMoment(props.value[2])
       /\ getCurrentDateRange(state) = props.value

----------------------------------------------------------------------------

\* C29: an edit whose text is invalid or out of range changes only the edited
\* field's edit buffer: the field's committed value is left untouched by the
\* edit.
C29_BadEditTouchesOnlyBuffer ==
    [][(/\ lastEvent'.type = "change"
        /\ (TextIsInvalid(lastEvent'.text) \/ TextIsOutOfRange(lastEvent'.text)))
       => /\ StringOf(state', lastEvent'.boundary) = lastEvent'.text
          /\ ValueOf(state', lastEvent'.boundary)
                = ValueOf(state, lastEvent'.boundary)]_vars

----------------------------------------------------------------------------

\* C30: every blur leaves the blurred field unfocused; in uncontrolled mode a
\* blur whose non-empty text is invalid or out of range additionally sets the
\* field's committed value to the parsed date and its edit buffer to null,
\* for the start field and for the end field alike and whatever the other
\* field holds.
C30_BlurCommitsBadText ==
    [][lastEvent'.type = "blur"
       => LET b == lastEvent'.boundary
              text == lastEvent'.text
          IN /\ ~FocusedOf(state', b)
             /\ (/\ ~isControlled(props)
                 /\ (TextIsInvalid(text) \/ TextIsOutOfRange(text)))
                => /\ ValueOf(state', b) = Parse(text)
                   /\ StringOf(state', b) = NullString]_vars

----------------------------------------------------------------------------

\* in st every unfocused field whose committed value is unset shows the empty
\* string whenever the component renders, and in no case invalidDateMessage
UnsetShowsEmpty(st) ==
    \A b \in {"start", "end"} :
        (~FocusedOf(st, b) /\ isNull(ValueOf(st, b)))
        => LET shown == render(st)
           IN /\ ShownIn(shown, b) # invalidDateMessage
              /\ ~shown.threw => ShownIn(shown, b) = ""

\* C31: blurring a field whose text is empty sets its committed value to the
\* unset value moment(null), never to the invalid marker, sets its edit
\* buffer to null and unfocuses it; an unset boundary displays the empty
\* string when unfocused and never invalidDateMessage.
C31_EmptyBlurUnsetsField ==
    [][/\ (lastEvent'.type = "blur" /\ lastEvent'.text = "")
          => LET b == lastEvent'.boundary
             IN /\ ValueOf(state', b) = NullMoment
                /\ ValueOf(state', b) # InvalidMoment
                /\ StringOf(state', b) = NullString
                /\ ~FocusedOf(state', b)
                /\ ~render(state).threw
                   => (~render(state').threw /\ ShownIn(render(state'), b) = "")
       /\ UnsetShowsEmpty(state')]_vars

C31_Witness ==
    /\ lastEvent.type = "blur"
    /\ lastEvent.boundary = "start"
    /\ lastEvent.text = ""
    /\ state.startDateValue = NullMoment
    /\ state.startDateValueString = NullString
    /\ ~state.isStartDateInputFocused
    /\ isValid(state.endDateValue)
    /\ ~render(state).threw
    /\ render(state).start = ""

----------------------------------------------------------------------------

\* C32: the range check is inclusive on both ends: a date on the day of
\* minDate or of maxDate is in range, so text that is exactly minDate or
\* maxDate is never classified out of range (an uncontrolled field commits
\* it) and a field holding it never displays outOfRangeMessage.
C32_RangeCheckInclusive ==
    /\ \A d \in {MinDate, MaxDate} :
          /\ dateIsInRange(ValidMoment(d))
          /\ isDateValidAndInRange(ValidMoment(d))
          /\ getDateStringForDisplay(ValidMoment(d)) = FormatDay(d)
    /\ \A b \in {"start", "end"} :
          (ValueOf(state, b) \in {ValidMoment(MinDate), ValidMoment(MaxDate)})
          => ShownIn(render(state), b) # outOfRangeMessage
    /\ (/\ LastIsEdit \/ LastIsBlur
        /\ Parse(lastEvent.text) \in {ValidMoment(MinDate), ValidMoment(MaxDate)})
       => /\ ~TextIsOutOfRange(lastEvent.text)
          /\ ~isControlled(props)
             => /\ ValueOf(state, lastEvent.boundary) = Parse(lastEvent.text)
                /\ ShownIn(render(state), lastEvent.boundary) # outOfRangeMessage

C32_Witness ==
    /\ ~isControlled(props)
    /\ lastEvent.type = "blur"
    /\ lastEvent.boundary = "end"
    /\ lastEvent.text = FormatDay(MaxDate)
    /\ state.endDateValue = ValidMoment(MaxDate)
    /\ ~state.isEndDateInputFocused
    /\ state.startDateValue = ValidMoment(MinDate)
    /\ render(state).start = FormatDay(MinDate)
    /\ render(state).end = FormatDay(MaxDate)

----------------------------------------------------------------------------

\* C33: when both boundaries are valid and in range but the start is after
\* the end, the boundary edited last is authoritative: the range derived for
\* the calendar keeps the last-edited boundary's date and drops the other
\* one, whether the last edit was in the start field or in the end field.
C33_LastEditedBoundaryWins ==
    (/\ LastIsEdit
     /\ TextIsValidInRange(lastEvent.text)
     /\ ValueOf(state, lastEvent.boundary) = Parse(lastEvent.text)
     /\ Overlaps(state, lastEvent.boundary, Parse(lastEvent.text)))
    => LET range == getCurrentDateRange(state)
       IN /\ range[Slot(lastEvent.boundary)]
                = fromMomentToDate(Parse(lastEvent.text))
          /\ range[Slot(Other(lastEvent.boundary))] = JSNull

----------------------------------------------------------------------------

\* C34: when the range is [null, null] and a calendar click makes the clicked
\* date the start, a field that was marked focused before the click is still
\* focused after it, and if no field was focused the start field becomes the
\* focused one.
C34_FocusAfterFirstCalendarClick ==
    [][(/\ isNull(state.startDateValue)
        /\ isNull(state.endDateValue)
        /\ lastEvent'.type = "dateRangeChange"
        /\ lastEvent'.range[1] # JSNull
        /\ lastEvent'.range[2] = JSNull)
       => /\ state.isStartDateInputFocused => state'.isStartDateInputFocused
          /\ state.isEndDateInputFocused => state'.isEndDateInputFocused
          /\ (~state.isStartDateInputFocused /\ ~state.isEndDateInputFocused)
             => (state'.isStartDateInputFocused /\ ~state'.isEndDateInputFocused)]_vars

----------------------------------------------------------------------------

\* C35: in every reachable state, the range the component hands to the
\* calendar picker has each endpoint either null or a valid date within
\* [minDate, maxDate], and when both endpoints are non-null the start is not
\* after the end.
C35_PickerRangeWellFormed ==
    LET range == getCurrentDateRange(state)
    IN /\ \A i \in {1, 2} :
             \/ range[i] = JSNull
             \/ /\ range[i].kind = "date"
                /\ MinDate <= range[i].day
                /\ range[i].day <= MaxDate
       /\ (range[1] # JSNull /\ range[2] # JSNull) => range[1].day <= range[2].day

\* the committed start is after the committed end, both in range: the picker
\* is handed the start alone
C35_Witness ==
    /\ state.startDateValue = ValidMoment(MaxDate)
    /\ state.endDateValue = ValidMoment(MinDate)
    /\ getCurrentDateRange(state) = <<DateOf(MaxDate), JSNull>>
    /\ lastEvent.type = "change"

----------------------------------------------------------------------------

\* C36: no sequence of focus, edit, blur and calendar events reaches a state
\* that cannot be rendered: whenever a field is not marked focused its
\* committed value is a date object (unset, invalid or valid), never the raw
\* null on which render calls isAfter/isBefore.
C36_AlwaysRenderable ==
    /\ ~render(state).threw
    /\ \A b \in {"start", "end"} :
          ~FocusedOf(state, b) => ValueOf(state, b) # JSNull

----------------------------------------------------------------------------

\* C37: in every reachable state, a field that is marked focused has a
\* non-null edit buffer, so the blur of a focused field always has a string
\* to parse and measure.
C37_FocusedFieldHasBuffer ==
    \A b \in {"start", "end"} :
        FocusedOf(state, b) => StringOf(state, b) # NullString

\* the start field focused by a focus event right after the mount, its buffer
\* filled from the committed date
C37_Witness ==
    /\ lastEvent.type = "focus"
    /\ lastEvent.boundary = "start"
    /\ state.isStartDateInputFocused
    /\ state.startDateValue = ValidMoment(MinDate)
    /\ state.startDateValueString = FormatDay(MinDate)
    /\ state.endDateValueString = NullString
    /\ ~state.isEndDateInputFocused

----------------------------------------------------------------------------

\* both fields are marked focused
BothFieldsFocused(st) == st.isStartDateInputFocused /\ st.isEndDateInputFocused

----------------------------------------------------------------------------

\* C39: in uncontrolled mode, in every reachable state where a field's edit
\* buffer is non-null, parsing that buffer gives the field's committed value
\* (empty text corresponding to the unset value), so the committed value
\* never lags behind or diverges from the typed text.
C39_BufferParsesToCommittedValue ==
    ~isControlled(props)
    => \A b \in {"start", "end"} :
          StringOf(state, b) # NullString
          => IF StringOf(state, b) = ""
             THEN isNull(ValueOf(state, b))
             ELSE ValueOf(state, b) = Parse(StringOf(state, b))

\* a date typed without zero padding: the buffer holds the text as typed, the
\* committed value is the date it parses to
C39_Witness ==
    /\ ~isControlled(props)
    /\ lastEvent.type = "change"
    /\ lastEvent.boundary = "start"
    /\ state.startDateValueString = LooseDay(MinDate)
    /\ state.startDateValueString # FormatDay(MinDate)
    /\ state.startDateValue = ValidMoment(MinDate)

----------------------------------------------------------------------------

\* C40: edits, blurs and calendar range changes never change whether the
\* popover is open (completing a range in the calendar does not close it),
\* and closing the popover (the Popover's onClose) changes nothing but the
\* open flag: committed values, edit buffers and focus flags of both fields
\* are unchanged.
C40_PopoverFlagFrame ==
    [][/\ lastEvent'.type \in {"change", "blur", "dateRangeChange"}
          => state'.isOpen = state.isOpen
       /\ lastEvent'.type = "closePopover"
          => /\ ~state'.isOpen
             /\ state' = [state EXCEPT !.isOpen = FALSE]]_vars

====
